---- MODULE Spec2Model ----
(***************************************************************************)
(* arith32: a static-model arithmetic coder with 8-bit symbols and 32-bit  *)
(* precision.  arith_compress reads bytes from standard input and writes   *)
(* the packed code to standard output; arith_decompress reads that code    *)
(* and writes the bytes back.                                              *)
(*                                                                         *)
(* TLC's integers are 32-bit signed, so a u32 is kept as two 16-bit limbs  *)
(* <<low, high>> and a u64 as four limbs <<l1, l2, l3, l4>>, least         *)
(* significant first; the arithmetic below is the unsigned wrap-around     *)
(* arithmetic of C++ on those widths.                                      *)
(***************************************************************************)
EXTENDS Integers, Sequences, FiniteSets, TLC

\* ------------------------------------------------------------- bounds
\* Longest input of the compressor drawn from SampleBytes.
MaxLen == 3
\* Longest input of the decompressor when it is fed arbitrary bytes.
MaxStreamLen == 2
\* The number of decoded symbols after which the decompressor's state is
\* remembered in watch.
SnapAt == 16384
\* Longest input of the runs that compare the sizes of two outputs.
CmpMaxLen == 11

\* ---------------------------------------------------- fixed-width words
Limb == 65536

EOF_SYMBOL == 256

U32(h, l) == <<l, h>>

ZERO32 == <<0, 0>>

\* ~0 as a u32
ONES32 == <<65535, 65535>>

To64(a) == <<a[1], a[2], 0, 0>>

Small64(n) == <<n % Limb, n \div Limb, 0, 0>>

Trunc32(x) == <<x[1], x[2]>>

Add64(a, b) ==
    LET s1 == a[1] + b[1]
        s2 == a[2] + b[2] + (s1 \div Limb)
        s3 == a[3] + b[3] + (s2 \div Limb)
        s4 == a[4] + b[4] + (s3 \div Limb)
    IN  <<s1 % Limb, s2 % Limb, s3 % Limb, s4 % Limb>>

Sub64(a, b) ==
    LET d1 == a[1] - b[1]
        d2 == a[2] - b[2] - (IF d1 < 0 THEN 1 ELSE 0)
        d3 == a[3] - b[3] - (IF d2 < 0 THEN 1 ELSE 0)
        d4 == a[4] - b[4] - (IF d3 < 0 THEN 1 ELSE 0)
    IN  <<d1 % Limb, d2 % Limb, d3 % Limb, d4 % Limb>>

\* a * k for a u64 a and a factor k < 2^15 (every cumulative frequency is)
Mul64(a, k) ==
    LET p1 == a[1] * k
        p2 == a[2] * k + (p1 \div Limb)
        p3 == a[3] * k + (p2 \div Limb)
        p4 == a[4] * k + (p3 \div Limb)
    IN  <<p1 % Limb, p2 % Limb, p3 % Limb, p4 % Limb>>

\* floor(a / k) for a u64 a and a divisor 0 < k < 2^15
Div64(a, k) ==
    LET q4 == a[4] \div k
        t3 == (a[4] % k) * Limb + a[3]
        q3 == t3 \div k
        t2 == (t3 % k) * Limb + a[2]
        q2 == t2 \div k
        t1 == (t2 % k) * Limb + a[1]
        q1 == t1 \div k
    IN  <<q1, q2, q3, q4>>

Leq64(a, b) ==
    IF a[4] # b[4] THEN a[4] < b[4]
    ELSE IF a[3] # b[3] THEN a[3] < b[3]
    ELSE IF a[2] # b[2] THEN a[2] < b[2]
    ELSE a[1] <= b[1]

Leq32(a, b) == IF a[2] # b[2] THEN a[2] < b[2] ELSE a[1] <= b[1]

Lt32(a, b) == ~Leq32(b, a)

\* x >> 31 and (x >> 30) & 1 of a u32
Bit31(x) == x[2] \div 32768

Bit30(x) == (x[2] \div 16384) % 2

\* x << 1 of a u32
Shl32(x) == <<(2 * x[1]) % Limb, (2 * x[2] + (x[1] \div 32768)) % Limb>>

\* x | 1 and x | (1U << 31) and x & 0x7fffffff of a u32
Or1(x) == <<x[1] - (x[1] % 2) + 1, x[2]>>

OrTop(x) == <<x[1], (x[2] % 32768) + 32768>>

AndLow31(x) == <<x[1], x[2] % 32768>>

\* saturation point of Quot64: beyond every entry of CF_low
QuotCap == (Limb \div 2) - 1

RECURSIVE Bisect(_, _, _, _)
\* the largest k in lo..hi with k * d <= num, given lo * d <= num
Bisect(num, d, lo, hi) ==
    IF lo = hi THEN lo
    ELSE LET mid == (lo + hi + 1) \div 2
         IN  IF Leq64(Mul64(d, mid), num)
             THEN Bisect(num, d, mid, hi)
             ELSE Bisect(num, d, lo, mid - 1)

\* min(floor(num / d), QuotCap) for u64 num and a divisor d # 0 that is the
\* difference of two u32 plus one: d <= 2^32, or d >= 2^63 after wrap-around
Quot64(num, d) ==
    IF d[4] >= 32768
    THEN (IF Leq64(d, num) THEN 1 ELSE 0)
    ELSE Bisect(num, d, 0, QuotCap)

\* ------------------------------------------------------------- the model
Vowels == {65, 69, 73, 79, 85, 97, 101, 105, 111, 117}

\* the compressor's table with weight 0 for symbol 1
enc_frequencies_zero_weight ==
    [i \in 0..EOF_SYMBOL |->
        IF i = 1 THEN 0
        ELSE IF i \in Vowels THEN 4
        ELSE IF i >= 65 /\ i <= 122 THEN 2
        ELSE 1]

\* a table that gives every symbol weight 1
enc_frequencies_flat == [i \in 0..EOF_SYMBOL |-> 1]

\* frequencies as arith_compress builds it: fill(1), 65..122 := 2, vowels := 4
enc_frequencies ==
    [i \in 0..EOF_SYMBOL |->
        IF i \in Vowels THEN 4
        ELSE IF i >= 65 /\ i <= 122 THEN 2
        ELSE 1]

\* a table of the decompressor in which the weight 2 stops at the letters
dec_frequencies_letters_only ==
    [i \in 0..EOF_SYMBOL |->
        IF i \in Vowels THEN 4
        ELSE IF (i >= 65 /\ i <= 90) \/ (i >= 97 /\ i <= 122) THEN 2
        ELSE 1]

\* frequencies as arith_decompress builds it
dec_frequencies ==
    [i \in 0..EOF_SYMBOL |->
        IF i \in Vowels THEN 4
        ELSE IF i >= 65 /\ i <= 122 THEN 2
        ELSE 1]

RECURSIVE RangeSum(_, _, _)
\* f[a] + ... + f[b - 1], summed by halves to keep the evaluation shallow
RangeSum(f, a, b) ==
    IF a >= b THEN 0
    ELSE IF b = a + 1 THEN f[a]
    ELSE LET m == (a + b) \div 2 IN RangeSum(f, a, m) + RangeSum(f, m, b)

\* the running sum started one entry late
PrefixSum_skip_first(f, i) == RangeSum(f, 1, i)

\* CF_low.at(0) = 0; CF_low.at(i) = CF_low.at(i-1) + frequencies.at(i-1)
PrefixSum(f, i) == RangeSum(f, 0, i)

enc_CF_low == [i \in 0..(EOF_SYMBOL + 1) |-> PrefixSum(enc_frequencies, i)]

dec_CF_low == [i \in 0..(EOF_SYMBOL + 1) |-> PrefixSum(dec_frequencies, i)]

\* the total taken one entry early, leaving the EOF symbol out
enc_total_without_eof == enc_CF_low[EOF_SYMBOL]

enc_global_cumulative_frequency == enc_CF_low[EOF_SYMBOL + 1]

dec_global_cumulative_frequency == dec_CF_low[EOF_SYMBOL + 1]

\* ((u64)upper_bound + 1) - (u64)lower_bound
enc_current_range(lower, upper) ==
    Sub64(Add64(To64(upper), Small64(1)), To64(lower))

\* the decompressor's range without its + 1
dec_current_range_short(lower, upper) == Sub64(To64(upper), To64(lower))

\* (u64)upper_bound - (u64)lower_bound + 1
dec_current_range(lower, upper) ==
    Add64(Sub64(To64(upper), To64(lower)), Small64(1))

\* the upper bound of the symbol's share counted from 0 instead of lower_bound
NarrowUpper_from_zero(lower, range, high, total) ==
    Trunc32(Sub64(Div64(Mul64(range, high), total), Small64(1)))

\* lower_bound + (current_range*symbol_range_high)/global_cumulative_frequency - 1
NarrowUpper(lower, range, high, total) ==
    Trunc32(Sub64(Add64(To64(lower), Div64(Mul64(range, high), total)), Small64(1)))

\* lower_bound + (current_range*symbol_range_low)/global_cumulative_frequency
NarrowLower(lower, range, low, total) ==
    Trunc32(Add64(To64(lower), Div64(Mul64(range, low), total)))

\* x | b for a bit b, and x & 0x3fffffff, of a u32
OrBit(x, b) == <<x[1] + (IF x[1] % 2 = 0 THEN b ELSE 0), x[2]>>

AndLow30(x) == <<x[1], x[2] % 16384>>

\* ----------------------------------------------------- OutputBitStream
\* push_bit: bits fill a byte from its least significant bit; a full byte
\* goes to the file
push_bit(s, b) ==
    LET bv == s.bitvec + b * (2 ^ s.numbits)
    IN  IF s.numbits + 1 = 8
        THEN [bitvec |-> 0, numbits |-> 0, outfile |-> Append(s.outfile, bv)]
        ELSE [bitvec |-> bv, numbits |-> s.numbits + 1, outfile |-> s.outfile]

\* the OutputBitStream together with the file behind it, and taken apart again
Sink(stream, file) ==
    [bitvec |-> stream.bitvec, numbits |-> stream.numbits, outfile |-> file]

StreamOf(s) == [bitvec |-> s.bitvec, numbits |-> s.numbits]

\* the pending opposite bits left out
push_copies_none(s, b, n) == s

RECURSIVE push_copies(_, _, _)
\* for(int i = 0; i < underflow_counter; i++) stream.push_bit(!b);
push_copies(s, b, n) == IF n <= 0 THEN s ELSE push_copies(push_bit(s, b), b, n - 1)

RECURSIVE flush_to_byte(_, _)
\* flush_to_byte(pad): pad the partial byte, if there is one, with pad bits
flush_to_byte(s, pad) ==
    IF s.numbits = 0 THEN s ELSE flush_to_byte(push_bit(s, pad), pad)

\* ------------------------------------------------------ InputBitStream
input_byte(s, infile) ==
    IF s.pos >= Len(infile)
    THEN [s EXCEPT !.done = TRUE, !.numbits = 0]
    ELSE [s EXCEPT !.bitvec = infile[s.pos + 1], !.numbits = 0, !.pos = s.pos + 1]

\* read_bit() with the bits of a byte taken from the top: what the round trip
\* and the bit order must tell apart from read_bit
read_bit_msb_first(s, infile) ==
    LET s1 == IF s.numbits = 8 THEN input_byte(s, infile) ELSE s
    IN  IF ~s1.done
        THEN [s1 EXCEPT !.last_real_bit = (s1.bitvec \div (2 ^ (7 - s1.numbits))) % 2,
                        !.numbits = s1.numbits + 1]
        ELSE s1

\* read_bit() that answers 0 once the file is exhausted
read_bit_zero_when_done(s, infile) ==
    LET s1 == IF s.numbits = 8 THEN input_byte(s, infile) ELSE s
    IN  IF ~s1.done
        THEN [s1 EXCEPT !.last_real_bit = (s1.bitvec \div (2 ^ s1.numbits)) % 2,
                        !.numbits = s1.numbits + 1]
        ELSE [s1 EXCEPT !.last_real_bit = 0]

\* the stream after read_bit(); the bit returned is its last_real_bit
read_bit(s, infile) ==
    LET s1 == IF s.numbits = 8 THEN input_byte(s, infile) ELSE s
    IN  IF ~s1.done
        THEN [s1 EXCEPT !.last_real_bit = (s1.bitvec \div (2 ^ s1.numbits)) % 2,
                        !.numbits = s1.numbits + 1]
        ELSE s1

\* ---------------------------------------------------------------- state
VARIABLES
    cin,            \* arith_compress: the bytes on standard input
    cin_pos,        \* arith_compress: how many of them std::cin.get has taken
    enc,            \* arith_compress: lower_bound, upper_bound, underflow_counter, symbol, pc
    ostream,        \* arith_compress: the OutputBitStream (bitvec, numbits)
    encoded_output, \* the bytes of the file arith_compress writes and arith_decompress reads
    istream,        \* arith_decompress: the InputBitStream over that file
    dec,            \* arith_decompress: lower_bound, upper_bound, encoded_bits, i, pc
    keep_output,    \* arith_decompress: whether what goes to std::cout is kept
    cout,           \* arith_decompress: the bytes written to standard output
    watch,          \* history: symbols decoded so far (up to SnapAt) and the
                    \* decompressor's state at the head of its loop at that point
    runs,           \* the inputs arith_compress is still to be run on, and history:
                    \* per finished run the bits emitted before the flush, the
                    \* underflow bits pending at the flush, and the bits emitted in all
    trace           \* history: per symbol the bounds each program reached after
                    \* renormalizing it and the shifts it made, the shifts of the
                    \* symbol in hand, the counts of shifts and of read_bit calls, and
                    \* the highest underflow_counter so far

vars ==
    <<cin, cin_pos, enc, ostream, encoded_output, istream, dec, keep_output, cout, watch, runs,
      trace>>

enc_vars == <<cin, cin_pos, enc, ostream, encoded_output>>

dec_vars == <<istream, dec, keep_output, cout, watch>>

AllBytes == 0..255

\* one byte of every weight, both ends of the alphabet, and 108 ('l'), whose
\* share of the interval straddles the midpoint
SampleBytes == {0, 65, 66, 91, 108, 255}

SeqsUpTo(S, n) == UNION {[1..k -> S] : k \in 0..n}

Inputs == SeqsUpTo(SampleBytes, MaxLen) \cup [1..1 -> AllBytes]

enc_start ==
    [lower_bound |-> ZERO32, upper_bound |-> ONES32, underflow_counter |-> 0,
     symbol |-> 0, pc |-> "read"]

ostream_start == [bitvec |-> 0, numbits |-> 0]

istream_start ==
    [bitvec |-> 0, numbits |-> 8, done |-> FALSE, last_real_bit |-> 0, pos |-> 0]

dec_start ==
    [lower_bound |-> ZERO32, upper_bound |-> ONES32, encoded_bits |-> ZERO32,
     i |-> 0, pc |-> "wait"]

watch_start == [count |-> 0, snap |-> <<>>]

runs_start == [todo |-> <<>>, before |-> <<>>, pending |-> <<>>, emitted |-> <<>>]

trace_start ==
    [enc_steps |-> <<>>, enc_cur |-> <<>>, enc_shifts |-> 0, peak |-> 0,
     dec_steps |-> <<>>, dec_cur |-> <<>>, dec_shifts |-> 0, reads |-> 0]

Init ==
    /\ cin \in Inputs
    /\ cin_pos = 0
    /\ enc = enc_start
    /\ ostream = ostream_start
    /\ encoded_output = <<>>
    /\ istream = istream_start
    /\ dec = dec_start
    /\ keep_output = TRUE
    /\ cout = <<>>
    /\ watch = watch_start
    /\ runs = runs_start
    /\ trace = trace_start

\* ------------------------------------------------------- arith_compress
\* the next symbol and the interval update
enc_narrow ==
    /\ enc.pc = "read"
    /\ LET symbol == IF cin_pos < Len(cin) THEN cin[cin_pos + 1] ELSE EOF_SYMBOL
           current_range == enc_current_range(enc.lower_bound, enc.upper_bound)
           symbol_range_low == enc_CF_low[symbol]
           symbol_range_high == enc_CF_low[symbol + 1]
       IN  /\ cin_pos' = IF cin_pos < Len(cin) THEN cin_pos + 1 ELSE cin_pos
           /\ enc' = [enc EXCEPT
                 !.symbol = symbol,
                 !.upper_bound = NarrowUpper(enc.lower_bound, current_range,
                                     symbol_range_high, enc_global_cumulative_frequency),
                 !.lower_bound = NarrowLower(enc.lower_bound, current_range,
                                     symbol_range_low, enc_global_cumulative_frequency),
                 !.pc = "renorm"]
    /\ UNCHANGED <<cin, ostream, encoded_output, dec_vars, runs, trace>>

\* the most significant bits match: push the bit and the pending opposite bits
enc_msb_match ==
    /\ enc.pc = "renorm"
    /\ Bit31(enc.upper_bound) = Bit31(enc.lower_bound)
    /\ LET b == Bit31(enc.upper_bound)
           s == push_copies(push_bit(Sink(ostream, encoded_output), b), 1 - b,
                            enc.underflow_counter)
       IN  ostream' = StreamOf(s) /\ encoded_output' = s.outfile
    /\ enc' = [enc EXCEPT
          !.underflow_counter = 0,
          !.upper_bound = Or1(Shl32(enc.upper_bound)),
          !.lower_bound = Shl32(enc.lower_bound)]
    /\ trace' = [trace EXCEPT !.enc_cur = Append(@, "msb"), !.enc_shifts = @ + 1]
    /\ UNCHANGED <<cin, cin_pos, dec_vars, runs>>

\* the underflow shift of lower_bound without its mask
enc_underflow_lower_unmasked(lower_bound) == Shl32(lower_bound)

\* lower_bound <<= 1; lower_bound &= (1U<<31) - 1;
enc_underflow_lower(lower_bound) == AndLow31(Shl32(lower_bound))

\* lower_bound = 01..., upper_bound = 10...: splice out the second bit
enc_underflow ==
    /\ enc.pc = "renorm"
    /\ Bit31(enc.upper_bound) # Bit31(enc.lower_bound)
    /\ Bit30(enc.lower_bound) = 1 /\ Bit30(enc.upper_bound) = 0
    /\ enc' = [enc EXCEPT
          !.underflow_counter = enc.underflow_counter + 1,
          !.upper_bound = Or1(OrTop(Shl32(enc.upper_bound))),
          !.lower_bound = enc_underflow_lower(enc.lower_bound)]
    /\ trace' = [trace EXCEPT
          !.enc_cur = Append(@, "underflow"),
          !.enc_shifts = @ + 1,
          !.peak = IF enc.underflow_counter + 1 > @ THEN enc.underflow_counter + 1 ELSE @]
    /\ UNCHANGED <<cin, cin_pos, ostream, encoded_output, dec_vars, runs>>

\* neither: leave the inner loop; after the EOF symbol leave the outer one too
enc_next_symbol ==
    /\ enc.pc = "renorm"
    /\ Bit31(enc.upper_bound) # Bit31(enc.lower_bound)
    /\ ~(Bit30(enc.lower_bound) = 1 /\ Bit30(enc.upper_bound) = 0)
    /\ enc' = [enc EXCEPT !.pc = IF enc.symbol = EOF_SYMBOL THEN "flush" ELSE "read"]
    /\ trace' = [trace EXCEPT
          !.enc_steps = Append(@, [lower_bound |-> enc.lower_bound,
                                   upper_bound |-> enc.upper_bound,
                                   shifts |-> trace.enc_cur]),
          !.enc_cur = <<>>]
    /\ UNCHANGED <<cin, cin_pos, ostream, encoded_output, dec_vars, runs>>

\* the flush with the last byte padded with 0 bits
flush_bits_zero_pad(s) == flush_to_byte(push_bit(push_bit(s, 0), 1), 0)

\* stream.push_bit(0); stream.push_bit(1); stream.flush_to_byte(1);
flush_bits(s) == flush_to_byte(push_bit(push_bit(s, 0), 1), 1)

\* the flush, and return 0
enc_flush ==
    /\ enc.pc = "flush"
    /\ LET s == flush_bits(Sink(ostream, encoded_output))
       IN  /\ ostream' = StreamOf(s)
           /\ encoded_output' = s.outfile
           /\ runs' = [runs EXCEPT
                 !.before = Append(@, 8 * Len(encoded_output) + ostream.numbits),
                 !.pending = Append(@, enc.underflow_counter),
                 !.emitted = Append(@, 8 * Len(s.outfile) + s.numbits)]
    /\ enc' = [enc EXCEPT !.pc = "done"]
    /\ UNCHANGED <<cin, cin_pos, dec_vars, trace>>

\* ./arith_compress once more, on the next input
run_compress_next ==
    /\ enc.pc = "done"
    /\ runs.todo # <<>>
    /\ cin' = Head(runs.todo)
    /\ cin_pos' = 0
    /\ enc' = enc_start
    /\ ostream' = ostream_start
    /\ encoded_output' = <<>>
    /\ runs' = [runs EXCEPT !.todo = Tail(@)]
    /\ trace' = trace_start
    /\ UNCHANGED dec_vars

\* ----------------------------------------------------- arith_decompress
\* ./arith_decompress < encoded_output, once arith_compress has written it
run_decompress ==
    /\ enc.pc = "done"
    /\ dec.pc = "wait"
    /\ dec' = [dec EXCEPT !.pc = "start"]
    /\ UNCHANGED <<enc_vars, runs, trace, istream, keep_output, cout, watch>>

\* one round of
\* for(int i = 0; i < 32; i++) encoded_bits = (encoded_bits<<1) | stream.read_bit();
dec_init ==
    /\ dec.pc = "start"
    /\ dec.i < 32
    /\ LET s == read_bit(istream, encoded_output)
       IN  /\ istream' = s
           /\ dec' = [dec EXCEPT
                 !.encoded_bits = OrBit(Shl32(dec.encoded_bits), s.last_real_bit),
                 !.i = dec.i + 1,
                 !.pc = IF dec.i + 1 < 32 THEN "start" ELSE "symbol"]
    /\ trace' = IF keep_output THEN [trace EXCEPT !.reads = @ + 1] ELSE trace
    /\ UNCHANGED <<enc_vars, runs, keep_output, cout, watch>>

\* (((u64)encoded_bits - lower_bound + 1)*global_cumulative_frequency - 1)/current_range
scaled_symbol_of(encoded_bits, lower, current_range) ==
    Quot64(Sub64(Mul64(Add64(Sub64(To64(encoded_bits), To64(lower)), Small64(1)),
                       dec_global_cumulative_frequency),
                 Small64(1)),
           current_range)

\* the search with < for <= in its test
find_symbol_strict(scaled_symbol) ==
    LET stops == {s \in 0..EOF_SYMBOL : ~(dec_CF_low[s + 1] < scaled_symbol)}
    IN  IF stops = {} THEN EOF_SYMBOL + 1
        ELSE CHOOSE s \in stops : \A t \in stops : s <= t

\* u32 symbol = 0; while(CF_low.at(symbol+1) <= scaled_symbol) symbol++;
\* the first symbol at which the loop test fails; EOF_SYMBOL + 1 stands for
\* .at() throwing past the end of CF_low
find_symbol(scaled_symbol) ==
    LET stops == {s \in 0..EOF_SYMBOL : ~(dec_CF_low[s + 1] <= scaled_symbol)}
    IN  IF stops = {} THEN EOF_SYMBOL + 1
        ELSE CHOOSE s \in stops : \A t \in stops : s <= t

\* identify the next symbol; stop at the EOF marker, else write the byte and
\* update the interval as the compressor did
dec_symbol ==
    /\ dec.pc = "symbol"
    /\ LET current_range == dec_current_range(dec.lower_bound, dec.upper_bound)
           divides == current_range # Small64(0)
           scaled_symbol == scaled_symbol_of(dec.encoded_bits, dec.lower_bound, current_range)
           symbol == find_symbol(scaled_symbol)
       IN  IF ~divides \/ symbol > EOF_SYMBOL
           THEN dec' = [dec EXCEPT !.pc = "crashed"] /\ cout' = cout
           ELSE IF symbol = EOF_SYMBOL
           THEN dec' = [dec EXCEPT !.pc = "done"] /\ cout' = cout
           ELSE /\ cout' = IF keep_output THEN Append(cout, symbol) ELSE cout
                /\ dec' = [dec EXCEPT
                      !.upper_bound = NarrowUpper(dec.lower_bound, current_range,
                                          dec_CF_low[symbol + 1], dec_global_cumulative_frequency),
                      !.lower_bound = NarrowLower(dec.lower_bound, current_range,
                                          dec_CF_low[symbol], dec_global_cumulative_frequency),
                      !.pc = "renorm"]
    /\ watch' = IF watch.count < SnapAt THEN [watch EXCEPT !.count = watch.count + 1]
                 ELSE IF watch.snap = <<>> THEN [watch EXCEPT !.snap = <<dec, istream>>]
                 ELSE watch
    /\ UNCHANGED <<enc_vars, runs, trace, istream, keep_output>>

dec_msb_match ==
    /\ dec.pc = "renorm"
    /\ Bit31(dec.upper_bound) = Bit31(dec.lower_bound)
    /\ LET s == read_bit(istream, encoded_output)
       IN  /\ istream' = s
           /\ dec' = [dec EXCEPT
                 !.upper_bound = Or1(Shl32(dec.upper_bound)),
                 !.lower_bound = Shl32(dec.lower_bound),
                 !.encoded_bits = OrBit(Shl32(dec.encoded_bits), s.last_real_bit)]
    /\ trace' = IF keep_output
                 THEN [trace EXCEPT !.dec_cur = Append(@, "msb"),
                                    !.dec_shifts = @ + 1, !.reads = @ + 1]
                 ELSE trace
    /\ UNCHANGED <<enc_vars, runs, keep_output, cout, watch>>

\* the underflow splice of encoded_bits done as the plain shift of the
\* MSB-match case
dec_splice_plain_shift(encoded_bits, bit) == OrBit(Shl32(encoded_bits), bit)

\* the splice with the mask one bit too wide: rest = encoded_bits&0x7fffffff
dec_splice_wide_mask(encoded_bits, bit) ==
    LET msb == Bit31(encoded_bits)
        rest == AndLow31(encoded_bits)
    IN  OrBit(IF msb = 1 THEN OrTop(Shl32(rest)) ELSE Shl32(rest), bit)

\* the "short way" left in a comment: encoded_bits <<= 1;
\* encoded_bits = encoded_bits^(1<<31); encoded_bits |= stream.read_bit()
dec_splice_short(encoded_bits, bit) ==
    LET shifted == Shl32(encoded_bits)
        flipped == IF Bit31(shifted) = 1 THEN AndLow31(shifted) ELSE OrTop(shifted)
    IN  OrBit(flipped, bit)

\* the "long way": msb = encoded_bits>>31; rest = encoded_bits&0x3fffffff;
\* encoded_bits = (msb<<31)|(rest<<1)|stream.read_bit()
dec_splice(encoded_bits, bit) ==
    LET msb == Bit31(encoded_bits)
        rest == AndLow30(encoded_bits)
    IN  OrBit(IF msb = 1 THEN OrTop(Shl32(rest)) ELSE Shl32(rest), bit)

\* lower_bound = 01..., upper_bound = 10...: splice the second bit out of the
\* bounds and of encoded_bits
dec_underflow ==
    /\ dec.pc = "renorm"
    /\ Bit31(dec.upper_bound) # Bit31(dec.lower_bound)
    /\ Bit30(dec.lower_bound) = 1 /\ Bit30(dec.upper_bound) = 0
    /\ LET s == read_bit(istream, encoded_output)
       IN  /\ istream' = s
           /\ dec' = [dec EXCEPT
                 !.upper_bound = Or1(OrTop(Shl32(dec.upper_bound))),
                 !.lower_bound = AndLow31(Shl32(dec.lower_bound)),
                 !.encoded_bits = dec_splice(dec.encoded_bits, s.last_real_bit)]
    /\ trace' = IF keep_output
                 THEN [trace EXCEPT !.dec_cur = Append(@, "underflow"),
                                    !.dec_shifts = @ + 1, !.reads = @ + 1]
                 ELSE trace
    /\ UNCHANGED <<enc_vars, runs, keep_output, cout, watch>>

dec_next_symbol ==
    /\ dec.pc = "renorm"
    /\ Bit31(dec.upper_bound) # Bit31(dec.lower_bound)
    /\ ~(Bit30(dec.lower_bound) = 1 /\ Bit30(dec.upper_bound) = 0)
    /\ dec' = [dec EXCEPT !.pc = "symbol"]
    /\ trace' = IF keep_output
                 THEN [trace EXCEPT
                         !.dec_steps = Append(@, [lower_bound |-> dec.lower_bound,
                                                  upper_bound |-> dec.upper_bound,
                                                  shifts |-> trace.dec_cur]),
                         !.dec_cur = <<>>]
                 ELSE trace
    /\ UNCHANGED <<enc_vars, runs, istream, keep_output, cout, watch>>

\* ------------------------------------------------------- specifications
EncNext == enc_narrow \/ enc_msb_match \/ enc_underflow \/ enc_next_symbol \/ enc_flush

DecNext == dec_init \/ dec_symbol \/ dec_msb_match \/ dec_underflow \/ dec_next_symbol

Next == EncNext \/ run_decompress \/ DecNext

\* compress a file, then decompress what was written
Spec == Init /\ [][Next]_vars

\* arith_decompress alone, on any file
StreamBytes == {1, 85, 127, 128, 254, 255}

Streams == SeqsUpTo(StreamBytes, MaxStreamLen)

DecInit ==
    /\ cin = <<>>
    /\ cin_pos = 0
    /\ enc = enc_start
    /\ ostream = ostream_start
    /\ encoded_output \in Streams
    /\ istream = istream_start
    /\ dec = [dec_start EXCEPT !.pc = "start"]
    /\ keep_output = FALSE
    /\ cout = <<>>
    /\ watch = watch_start
    /\ runs = runs_start
    /\ trace = trace_start

DecSpec == DecInit /\ [][DecNext]_vars

\* arith_compress on a vowel-only input and then on an input of the same
\* length made of weight-1 bytes
ConstRun(b, n) == [k \in 1..n |-> b]

\* "AEIOUaeiou"
VowelText == <<65, 69, 73, 79, 85, 97, 101, 105, 111, 117>>

\* ten distinct weight-1 bytes after which the interval sits tightly around a
\* coarse binary fraction
Straddler == <<188, 153, 226, 215, 191, 210, 39, 168, 203, 182>>

PlainBytes == {0, 33, 64, 123, 255}

VowelInputs(n) ==
    {ConstRun(v, n) : v \in Vowels} \cup (IF n = Len(VowelText) THEN {VowelText} ELSE {})

PlainInputs(n) ==
    {ConstRun(b, n) : b \in PlainBytes} \cup (IF n = Len(Straddler) THEN {Straddler} ELSE {})

CmpInit ==
    /\ \E n \in Len(VowelText)..CmpMaxLen :
          /\ cin \in VowelInputs(n)
          /\ \E plain \in PlainInputs(n) : runs = [runs_start EXCEPT !.todo = <<plain>>]
    /\ cin_pos = 0
    /\ enc = enc_start
    /\ ostream = ostream_start
    /\ encoded_output = <<>>
    /\ istream = istream_start
    /\ dec = dec_start
    /\ keep_output = TRUE
    /\ cout = <<>>
    /\ watch = watch_start
    /\ trace = trace_start

CmpNext == EncNext \/ run_compress_next

CmpSpec == CmpInit /\ [][CmpNext]_vars

\* ---------------------------------------------------------------- claims
\* the bits of a file in the order InputBitStream returns them
BitsOf(file) ==
    [k \in 1..(8 * Len(file)) |-> (file[((k - 1) \div 8) + 1] \div (2 ^ ((k - 1) % 8))) % 2]

\* bit j (0..31) of a u32
BitAt(x, j) == IF j < 16 THEN (x[1] \div (2 ^ j)) % 2 ELSE (x[2] \div (2 ^ (j - 16))) % 2

\* 0x7FFFFFFF
MIDDLE32 == <<65535, 32767>>

\* C1: for every input S, the decompressor fed the compressor's output writes
\* exactly S and stops at the end-of-stream symbol: it never crashes, what it
\* has written is always a prefix of S, and when it stops it has written S.
C1_RoundTrip ==
    /\ dec.pc # "crashed"
    /\ Len(cout) <= Len(cin)
    /\ cout = SubSeq(cin, 1, Len(cout))
    /\ (dec.pc = "done" => cout = cin)

\* a three-byte input with 255 and 108 in it has come back whole
C1_Witness ==
    /\ dec.pc = "done"
    /\ cout = cin
    /\ Len(cin) >= 3
    /\ \E j, k \in 1..Len(cin) : cin[j] = 255 /\ cin[k] = 108

\* C2: at the start of every iteration of the decompressor's symbol loop,
\* whatever the input stream, lower_bound <= encoded_bits <= upper_bound.
C2_WindowInBounds ==
    dec.pc = "symbol" =>
        /\ Leq32(dec.lower_bound, dec.encoded_bits)
        /\ Leq32(dec.encoded_bits, dec.upper_bound)

\* a head of the loop past the third symbol, the file exhausted, the window
\* in the upper half but not all ones
C2_Witness ==
    /\ dec.pc = "symbol"
    /\ watch.count >= 3
    /\ istream.done
    /\ Bit31(dec.encoded_bits) = 1
    /\ dec.encoded_bits # ONES32

\* C3: in the compressor and in the decompressor, after every interval
\* update and after every renormalization shift, lower_bound <= upper_bound.
C3_BoundsOrdered ==
    /\ Leq32(enc.lower_bound, enc.upper_bound)
    /\ Leq32(dec.lower_bound, dec.upper_bound)

\* the compressor ended on an underflow shift and the decompressor has just
\* made a shift too
C3_Witness ==
    /\ enc.pc = "done"
    /\ enc.underflow_counter >= 2
    /\ dec.pc = "renorm"
    /\ Len(cout) >= 2
    /\ Bit31(dec.lower_bound) = 0 /\ Bit31(dec.upper_bound) = 1
    /\ BitAt(dec.upper_bound, 0) = 1 /\ BitAt(dec.lower_bound, 0) = 0

\* the weight C4 gives symbol i
ClaimedWeight(i) ==
    IF i \in Vowels THEN 4
    ELSE IF (i >= 65 /\ i <= 90) \/ (i >= 97 /\ i <= 122) THEN 2
    ELSE 1

\* C4: every symbol has weight 1, except that exactly the letters A-Z and a-z
\* have weight 2 and the ten vowels have weight 4: the symbol the compressor
\* is coding and the symbol the decompressor has just written (every symbol
\* 0..256 is coded in some run) have that weight in the program's table.
C4_FrequencyRule ==
    /\ enc_frequencies[enc.symbol] = ClaimedWeight(enc.symbol)
    /\ (cout # <<>> => dec_frequencies[cout[Len(cout)]] = ClaimedWeight(cout[Len(cout)]))

\* C5 as claimed: on the empty input no bit is emitted before the flush, the
\* output is the flush bits 0, 1 and padding to one byte, and it decodes to
\* the empty sequence.
C5_EmptyOnlyFlushBits ==
    cin = <<>> =>
        /\ (enc.pc = "flush" => encoded_output = <<>> /\ ostream.numbits = 0)
        /\ (enc.pc = "done" => BitsOf(encoded_output) = <<0, 1, 1, 1, 1, 1, 1, 1>>)
        /\ cout = <<>>

\* C5 as amended: on the empty input the renormalization of the end-of-stream
\* symbol emits eight 1 bits, the flush adds 0, 1 and six 1 bits of padding
\* (the two bytes 0xFF 0xFE), and that output decodes to the empty sequence.
C5_EmptyInput ==
    cin = <<>> =>
        /\ (enc.pc = "flush" => encoded_output = <<255>> /\ ostream.numbits = 0)
        /\ (enc.pc = "done" =>
                /\ BitsOf(encoded_output) = <<1, 1, 1, 1, 1, 1, 1, 1, 0, 1, 1, 1, 1, 1, 1, 1>>
                /\ ostream.numbits = 0)
        /\ cout = <<>>
        /\ dec.pc # "crashed"
        /\ (dec.pc = "symbol" => dec.encoded_bits = U32(65407, 65535))

\* the empty input has been compressed and decompressed
C5_Witness == cin = <<>> /\ dec.pc = "done" /\ cout = <<>>

\* C6: on every finite input the decompressor runs to completion.  The
\* decompressor is deterministic and reads nothing new once its input is
\* exhausted, so a run that completes never comes back, at the head of the
\* symbol loop, to a state it was in at an earlier head of the loop.
C6_DecoderCompletes ==
    ~(dec.pc = "symbol" /\ watch.snap = <<dec, istream>>)

\* bit k (from 0) of what read_bit is to return over a file: the bits of its
\* bytes in byte order, least significant first, then its last bit for ever
\* (0 when the file is empty)
StreamBit(file, k) ==
    IF k < 8 * Len(file) THEN BitsOf(file)[k + 1]
    ELSE IF file = <<>> THEN 0
    ELSE BitsOf(file)[8 * Len(file)]

\* the number of bits read_bit has taken from the file
BitsTaken(s) == IF s.pos = 0 THEN 0 ELSE 8 * (s.pos - 1) + s.numbits

\* C7: read_bit returns the bits of the input bytes in byte order, least
\* significant bit first, and after the bytes are exhausted every call returns
\* the last bit read (0 if there was none), without an error: the bit last
\* returned is the bit of the file at the position reached, or its last bit
\* once the file is exhausted; the 32 calls that fill the window leave bit k
\* of that stream at position i-1-k; and the low bit of the window is always
\* the bit last returned.
C7_BitSource ==
    /\ dec.pc # "crashed"
    /\ (~istream.done /\ istream.pos > 0) =>
          /\ istream.numbits >= 1
          /\ istream.last_real_bit = StreamBit(encoded_output, BitsTaken(istream) - 1)
    /\ istream.done =>
          /\ istream.pos = Len(encoded_output)
          /\ istream.last_real_bit = StreamBit(encoded_output, 8 * Len(encoded_output))
    /\ (dec.pc = "start" \/ (dec.pc = "symbol" /\ watch.count = 0)) =>
          \A k \in 0..(dec.i - 1) :
              BitAt(dec.encoded_bits, dec.i - 1 - k) = StreamBit(encoded_output, k)
    /\ dec.i > 0 => BitAt(dec.encoded_bits, 0) = istream.last_real_bit

\* the window has been filled from a two-byte file ending in a 1 bit, half of
\* it by repeats of that bit
C7_Witness ==
    /\ dec.pc = "symbol" /\ watch.count = 0 /\ dec.i = 32
    /\ istream.done
    /\ Len(encoded_output) = 2
    /\ istream.last_real_bit = 1
    /\ dec.encoded_bits[1] = 65535
    /\ dec.encoded_bits[2] # 65535

\* the shape of a finished output: the bits before the flush, then 0, then 1,
\* then 1 bits up to the byte boundary
C8_Shape ==
    enc.pc = "done" =>
        LET bits == BitsOf(encoded_output)
            n == Len(bits)
            before == runs.before[Len(runs.before)]
        IN  /\ ostream.numbits = 0
            /\ n % 8 = 0
            /\ before + 2 <= n /\ n < before + 2 + 8
            /\ bits[before + 1] = 0
            /\ \A k \in (before + 2)..n : bits[k] = 1
            /\ bits[n] = 1

\* C8: for every input the complete output ends with the bit 0, then the bit
\* 1, then only 1 bits up to a byte boundary; the number of bits is a multiple
\* of 8, the last bit is 1, and nothing is emitted after the flush.
C8_FlushShape ==
    /\ [](C8_Shape)
    /\ [][enc.pc = "done" => UNCHANGED <<ostream, encoded_output>>]_vars

\* a finished output whose flush started a fresh byte with underflow bits
\* still pending
C8_Witness ==
    /\ enc.pc = "done"
    /\ Len(cin) = 3
    /\ runs.before[1] % 8 = 0
    /\ runs.pending[1] >= 1
    /\ Len(encoded_output) >= 4

\* C9: whenever the compressor reaches the flush, whatever underflow_counter
\* is, the top bit of lower_bound is 0 and the top bit of upper_bound is 1, so
\* lower_bound <= 0x7FFFFFFF < upper_bound.
C9_FlushPrecondition ==
    enc.pc = "flush" =>
        /\ Bit31(enc.lower_bound) = 0
        /\ Bit31(enc.upper_bound) = 1
        /\ Leq32(enc.lower_bound, MIDDLE32)
        /\ Lt32(MIDDLE32, enc.upper_bound)

\* at the flush with underflow bits pending
C9_Witness ==
    /\ enc.pc = "flush"
    /\ enc.underflow_counter >= 2
    /\ Len(cin) >= 2
    /\ Bit31(enc.lower_bound) = 0 /\ Bit31(enc.upper_bound) = 1

\* C10 as claimed: of two inputs of the same length n >= 10, one of vowels
\* only and one of weight-1 bytes only, the compressor emits strictly fewer
\* bits for the vowels.
C10_VowelsFewerBits ==
    Len(runs.emitted) = 2 => runs.emitted[1] < runs.emitted[2]

\* C10: of two such inputs the vowels take strictly fewer renormalization
\* shifts, that is bits emitted before the flush plus underflow bits pending
\* at the flush (pending bits are never emitted, so the emitted bits alone
\* need not be fewer).
C10_VowelsFewerShifts ==
    Len(runs.emitted) = 2 =>
        runs.before[1] + runs.pending[1] < runs.before[2] + runs.pending[2]

\* both runs are finished and the weight-1 input has come out shorter than
\* the vowels
C10_Witness ==
    /\ Len(runs.emitted) = 2
    /\ enc.pc = "done"
    /\ cin = Straddler
    /\ runs.emitted[2] < runs.emitted[1]
    /\ runs.pending[2] > 64

\* C11: the frequency table, the cumulative array CF_low (all 258 entries)
\* and the total frequency built by the compressor are equal, entry by entry,
\* to those built by the decompressor: in every state in which the
\* decompressor has been started on the compressor's output.
C11_ModelAgreement ==
    dec.pc # "wait" =>
        /\ DOMAIN enc_frequencies = DOMAIN dec_frequencies
        /\ \A i \in 0..EOF_SYMBOL : enc_frequencies[i] = dec_frequencies[i]
        /\ DOMAIN enc_CF_low = 0..(EOF_SYMBOL + 1)
        /\ DOMAIN dec_CF_low = 0..(EOF_SYMBOL + 1)
        /\ \A i \in 0..(EOF_SYMBOL + 1) : enc_CF_low[i] = dec_CF_low[i]
        /\ enc_global_cumulative_frequency = dec_global_cumulative_frequency

\* an input with the byte 91 in it, coded with the one table and decoded
\* with the other, has come back whole
C11_Witness ==
    /\ dec.pc = "done"
    /\ cout = cin
    /\ Len(cin) >= 2
    /\ \E j \in 1..Len(cin) : cin[j] = 91

\* the narrowed sub-interval of symbol t, from lower_bound and range, holds w
InShare(t, lower, range, w) ==
    /\ Leq32(NarrowLower(lower, range, dec_CF_low[t], dec_global_cumulative_frequency), w)
    /\ Leq32(w, NarrowUpper(lower, range, dec_CF_low[t + 1], dec_global_cumulative_frequency))

\* C12: at the head of the decompressor's symbol loop, with lower_bound <=
\* encoded_bits <= upper_bound and the range larger than the total frequency,
\* scaled_symbol is below the total, the search stops at a symbol s <= 256
\* with CF_low[s] <= scaled_symbol < CF_low[s+1] (so CF_low is never indexed
\* past entry 257), and s is the one symbol whose narrowed sub-interval
\* holds encoded_bits.
C12_SymbolInvertsNarrowing ==
    LET range == dec_current_range(dec.lower_bound, dec.upper_bound)
        total == dec_global_cumulative_frequency
        scaled == scaled_symbol_of(dec.encoded_bits, dec.lower_bound, range)
        s == find_symbol(scaled)
    IN  (/\ dec.pc = "symbol"
         /\ Leq32(dec.lower_bound, dec.encoded_bits)
         /\ Leq32(dec.encoded_bits, dec.upper_bound)
         /\ ~Leq64(range, Small64(total)))
        =>
        /\ scaled < total
        /\ s <= EOF_SYMBOL
        /\ dec_CF_low[s] <= scaled
        /\ scaled < dec_CF_low[s + 1]
        /\ \A t \in 0..EOF_SYMBOL :
              InShare(t, dec.lower_bound, range, dec.encoded_bits) <=> t = s

\* the head of the loop at which the third symbol, 108, is identified
C12_Witness ==
    /\ dec.pc = "symbol"
    /\ Len(cout) = 2
    /\ Len(cin) = 3 /\ cin[3] = 108
    /\ Leq32(dec.lower_bound, dec.encoded_bits)
    /\ Leq32(dec.encoded_bits, dec.upper_bound)
    /\ find_symbol(scaled_symbol_of(dec.encoded_bits, dec.lower_bound,
                        dec_current_range(dec.lower_bound, dec.upper_bound))) = 108

\* C13: fed the compressor's output for S, the decompressor has, after
\* decoding and renormalizing the i-th symbol (i <= |S|), the bounds the
\* compressor had after coding and renormalizing its i-th symbol, and has
\* made the same MSB-match and underflow shifts in the same order; within a
\* symbol its shifts so far are the first shifts the compressor made.
C13_Lockstep ==
    LET n == Len(trace.dec_steps)
    IN  /\ n <= Len(cin)
        /\ dec.pc # "wait" => n < Len(trace.enc_steps)
        /\ \A i \in 1..n : trace.dec_steps[i] = trace.enc_steps[i]
        /\ dec.pc = "renorm" =>
              /\ Len(trace.dec_cur) <= Len(trace.enc_steps[n + 1].shifts)
              /\ trace.dec_cur =
                    SubSeq(trace.enc_steps[n + 1].shifts, 1, Len(trace.dec_cur))
        /\ dec.pc = "done" => n = Len(cin)

\* three symbols decoded in step with the compressor, one of them through
\* shifts of both kinds
C13_Witness ==
    /\ dec.pc = "done"
    /\ Len(trace.dec_steps) = 3
    /\ trace.dec_steps = SubSeq(trace.enc_steps, 1, 3)
    /\ \E i \in 1..3 :
          LET sh == trace.dec_steps[i].shifts
          IN  \E j, k \in 1..Len(sh) : sh[j] = "msb" /\ sh[k] = "underflow"

\* 2^30 as a u64
TWO30 == <<0, 16384, 0, 0>>

\* the bounds leave room: top bits 0 and 1, not 01... against 10..., the
\* range above 2^30 and 2^30 above the total, and no symbol's share empty
RoomFor(lower, upper, range, CF, total) ==
    /\ Bit31(lower) = 0
    /\ Bit31(upper) = 1
    /\ ~(Bit30(lower) = 1 /\ Bit30(upper) = 0)
    /\ ~Leq64(range, TWO30)
    /\ ~Leq64(TWO30, Small64(total))
    /\ \A s \in 0..EOF_SYMBOL :
          Leq32(NarrowLower(lower, range, CF[s], total),
                NarrowUpper(lower, range, CF[s + 1], total))

\* C14: whenever the compressor or the decompressor starts an interval
\* update, the top bit of lower_bound is 0, the top bit of upper_bound is 1
\* and it is not so that bit 30 of lower_bound is 1 and bit 30 of upper_bound
\* is 0; hence the range is above 2^30, which is above the total, and for
\* every symbol 0..256 the updated bounds satisfy lower_bound <= upper_bound.
C14_NonEmptyShares ==
    /\ enc.pc = "read" =>
          RoomFor(enc.lower_bound, enc.upper_bound,
                  enc_current_range(enc.lower_bound, enc.upper_bound),
                  enc_CF_low, enc_global_cumulative_frequency)
    /\ dec.pc = "symbol" =>
          RoomFor(dec.lower_bound, dec.upper_bound,
                  dec_current_range(dec.lower_bound, dec.upper_bound),
                  dec_CF_low, dec_global_cumulative_frequency)

\* the decompressor starts the update for its third symbol from bounds
\* 01... and 11..., left by underflow shifts
C14_Witness ==
    /\ dec.pc = "symbol"
    /\ Len(cout) = 2 /\ Len(cin) = 3
    /\ Bit30(dec.lower_bound) = 1 /\ Bit30(dec.upper_bound) = 1
    /\ \E j \in 1..Len(trace.dec_steps[2].shifts) :
          trace.dec_steps[2].shifts[j] = "underflow"

\* CF is the cumulative array of the table f and passes the assertion
Cumulative(CF, f, total) ==
    /\ DOMAIN CF = 0..(EOF_SYMBOL + 1)
    /\ CF[0] = 0
    /\ \A i \in 1..(EOF_SYMBOL + 1) : CF[i] = CF[i - 1] + f[i - 1]
    /\ \A i \in 0..EOF_SYMBOL : f[i] >= 1
    /\ \A i \in 0..EOF_SYMBOL : CF[i] < CF[i + 1]
    /\ total = CF[EOF_SYMBOL + 1]
    /\ Leq64(Small64(total), To64(ONES32))

\* C15: CF_low[0] = 0, CF_low[i] = CF_low[i-1] + frequencies[i-1] for i in
\* 1..257, every weight is >= 1 so CF_low is strictly increasing, and the
\* total CF_low[257] is <= 0xFFFFFFFF, so the assertion at model construction
\* does not fail: in every state of the compressor, and of the decompressor
\* once it has been started.
C15_CumulativeArray ==
    /\ enc.pc \in {"read", "renorm", "flush", "done"} =>
          Cumulative(enc_CF_low, enc_frequencies, enc_global_cumulative_frequency)
    /\ dec.pc # "wait" =>
          Cumulative(dec_CF_low, dec_frequencies, dec_global_cumulative_frequency)

\* the byte 255, coded and decoded with the last entries of the array
C15_Witness ==
    /\ dec.pc = "done"
    /\ cin = <<255>> /\ cout = <<255>>
    /\ enc_CF_low[EOF_SYMBOL] + 1 = enc_global_cumulative_frequency
    /\ dec_CF_low[255] + 2 = dec_global_cumulative_frequency

\* the decompressor is about to take the underflow branch
DecUnderflowCase ==
    /\ dec.pc = "renorm"
    /\ Bit31(dec.upper_bound) # Bit31(dec.lower_bound)
    /\ Bit30(dec.lower_bound) = 1 /\ Bit30(dec.upper_bound) = 0

\* C16: whenever the decompressor takes the underflow branch, lower_bound is
\* 01... and upper_bound is 10..., the top two bits of encoded_bits are 01 or
\* 10, the splice, with the bit then read, leaves lower_bound <=
\* encoded_bits <= upper_bound (as does every other step of the
\* renormalization), and the short way would give the value of the long way.
C16_UnderflowSplice ==
    /\ DecUnderflowCase =>
          /\ Bit31(dec.lower_bound) = 0 /\ Bit31(dec.upper_bound) = 1
          /\ Bit31(dec.encoded_bits) # Bit30(dec.encoded_bits)
          /\ \A bit \in {0, 1} :
                dec_splice_short(dec.encoded_bits, bit) = dec_splice(dec.encoded_bits, bit)
          /\ LET bit == read_bit(istream, encoded_output).last_real_bit
                 spliced == dec_splice(dec.encoded_bits, bit)
             IN  /\ Leq32(AndLow31(Shl32(dec.lower_bound)), spliced)
                 /\ Leq32(spliced, Or1(OrTop(Shl32(dec.upper_bound))))
                 /\ Bit31(spliced) = Bit31(dec.encoded_bits)
    /\ dec.pc = "renorm" =>
          /\ Leq32(dec.lower_bound, dec.encoded_bits)
          /\ Leq32(dec.encoded_bits, dec.upper_bound)

\* an underflow branch met with encoded_bits = 10..., past the end of the
\* file
C16_Witness ==
    /\ DecUnderflowCase
    /\ Bit31(dec.encoded_bits) = 1 /\ Bit30(dec.encoded_bits) = 0
    /\ istream.done
    /\ watch.count >= 2

\* the bits the compressor has pushed to its sink
BitsPushed == 8 * Len(encoded_output) + ostream.numbits

\* C17: at every point of the compressor before the flush, the bits pushed
\* plus underflow_counter equal the renormalization shifts made so far,
\* underflow_counter is >= 0 and is 0 right after an MSB-match step; the
\* decompressor reads exactly 32 bits at its start and exactly one bit per
\* renormalization shift, each read taking the next bit of the file while
\* there is one.
C17_BitAccounting ==
    /\ enc.pc \in {"read", "renorm", "flush"} =>
          BitsPushed + enc.underflow_counter = trace.enc_shifts
    /\ enc.underflow_counter >= 0
    /\ (enc.pc = "renorm" /\ trace.enc_cur # <<>>
           /\ trace.enc_cur[Len(trace.enc_cur)] = "msb") => enc.underflow_counter = 0
    /\ dec.pc = "wait" => trace.reads = 0
    /\ dec.pc = "start" => trace.reads = dec.i /\ trace.dec_shifts = 0
    /\ dec.pc \in {"symbol", "renorm", "done"} => trace.reads = 32 + trace.dec_shifts
    /\ ~istream.done => BitsTaken(istream) = trace.reads
    /\ istream.done => trace.reads > 8 * Len(encoded_output)

\* both programs are through: the compressor had underflow bits pending
\* more than once, the decompressor shifted at least 16 times and read past
\* the end of the file
C17_Witness ==
    /\ dec.pc = "done"
    /\ trace.peak >= 2
    /\ trace.dec_shifts >= 16
    /\ trace.reads = 32 + trace.dec_shifts
    /\ istream.done
    /\ runs.pending[1] >= 1

\* C18: for every input on which the compressor's underflow_counter has
\* exceeded 1 (consecutive underflow shifts with no MSB match between them),
\* the decompressor fed the compressor's output writes the input back
\* exactly: it does not fail, what it has written is a prefix of the input,
\* and when it stops it has written all of it.  That there are such inputs
\* is C18_Witness.
C18_SustainedUnderflow ==
    trace.peak > 1 =>
        /\ dec.pc # "crashed"
        /\ Len(cout) <= Len(cin)
        /\ \A j \in 1..Len(cout) : cout[j] = cin[j]
        /\ (dec.pc = "done" => cout = cin /\ Len(trace.dec_steps) = Len(cin))

\* an input of three bytes on which underflow_counter reached 3 and the
\* compressor, and after it the decompressor, made three underflow shifts in
\* a row within one symbol, has come back whole
C18_Witness ==
    /\ dec.pc = "done"
    /\ Len(cin) = 3
    /\ cout = cin
    /\ trace.peak >= 3
    /\ \E i \in 1..Len(trace.dec_steps) :
          LET sh == trace.dec_steps[i].shifts
          IN  \E j \in 1..Len(sh) :
                /\ j + 2 <= Len(sh)
                /\ sh[j] = "underflow" /\ sh[j + 1] = "underflow" /\ sh[j + 2] = "underflow"
                /\ trace.enc_steps[i].shifts = sh

====
